---- MODULE Spec2Model ----
(***************************************************************************)
(* A model of the gasmon event pipeline (src/gasmon/pipeline.py) and its   *)
(* sinks (src/gasmon/sink.py), as wired in src/gasmon/__init__.py.         *)
(*                                                                         *)
(* Time: `clock` is the reading of time.time(), counted in ticks of        *)
(* 1 / TicksPerSecond second, so that readings less than a second apart    *)
(* are told apart.  The averaging sink works in milliseconds               *)
(* (1000 * time.time()), as the code does.  Event values are integers; a   *)
(* mean is kept as the exact fraction sum/count (num, den) instead of a    *)
(* rounded float.                                                          *)
(*                                                                         *)
(* The specifications share the definitions below:                         *)
(*   SpecDedup     DeDuplicator.handle fed arbitrary events                *)
(*   SpecAverage   CalculatesAverage.handle fed arbitrary events           *)
(*   SpecParallel  ParallelSink.handle over one generator                  *)
(*   SpecMain      main(): the combined pipeline run once per sink         *)
(*   SpecLocation  LocationAverage.handle over one generator               *)
(*   SpecSource    FixedDurationSource.handle over a live upstream         *)
(*   SpecCombine   a.combine(b).combine(c) beside a.combine(b.combine(c))  *)
(***************************************************************************)
EXTENDS Integers, Sequences, FiniteSets

VARIABLES
    clock,                      \* time.time(), in ticks of 1 / TicksPerSecond second
    \* ---- DeDuplicator (pipeline.py:135-168)
    cache_expiry_time,          \* self.cache_expiry_time (seconds)
    expiry_queue,               \* self.expiry_queue: deque of DeduplicationRecord
    id_cache,                   \* self.id_cache: set of event ids
    duplicate_events_ignored,   \* self.duplicate_events_ignored
    dd_log,                     \* history: one entry per event handled by DeDuplicator
    dd_error,                   \* "none", or the exception that ended DeDuplicator.handle
    \* ---- CalculatesAverage (sink.py:43-102)
    averaging_period_ms,        \* self.averaging_period_ms
    expiry_time_ms,             \* self.expiry_time_ms
    bins,                       \* self.bins: deque of AverageBin
    expired_bin,                \* handle's local expired_bin: <<>> is None, else <<bin>>
    average,                    \* handle's local average: <<Average>> of the last retired bin
    gas_averages_csv,           \* rows of Gas_Averages.csv after the last write
    avg_error,                  \* "none", or the exception that ended handle
    add_obs,                    \* history: what the last add_to_bin call did
    avg_handled,                \* history: number of events given to handle
    expire_obs,                 \* history: the last maybe_expire_first_bin_and_get_average call
    retired_log,                \* history: the bins popped so far, with the time of the pop
    \* ---- ParallelSink (sink.py:34-40)
    par_events,                 \* the sequence behind the generator given to handle
    par_cursor,                 \* how many elements the generator has produced
    par_sink,                   \* index in self.sinks of the sink now running
    par_received,               \* history: what each member sink was given
    \* ---- main (__init__.py:28-61) with FixedDurationSource and LocationFilter
    input,                      \* what receiver.get_events() yields
    run_time_seconds,           \* FixedDurationSource.run_time_seconds
    pass,                       \* 1: pipeline.sink(calculates_average), 2: .sink(location_average), 3: done
    started,                    \* the running pass's generator has been entered
    cursor,                     \* elements pulled from the running pass's get_events()
    end_time,                   \* FixedDurationSource.handle's local end_time
    events_processed,           \* FixedDurationSource.events_processed
    invalid_events_filtered,    \* LocationFilter.invalid_events_filtered
    delivered,                  \* history: events each pass handed to its sink
    cut_off,                    \* history: passes ended by the deadline
    upstream_pulled,            \* history: elements pulled from get_events(), all passes
    \* ---- LocationAverage (sink.py:127-168)
    loc_events,                 \* the sequence behind the generator given to handle
    loc_cursor,                 \* how many elements the generator has produced
    loc_index,                  \* find_event_locations: index of `location` in self.locations
    event_locations,            \* find_event_locations: the list event_locations
    location_averages_csv,      \* rows written to Location_Averages.csv
    loc_state,                  \* "find", "written", or "ZeroDivisionError"
    \* ---- FixedDurationSource over a live upstream (pipeline.py:90-107); it
    \* uses run_time_seconds, started, end_time and events_processed from above
    up_ready,                   \* the upstream generator has an element to hand over
    up_ended,                   \* the upstream generator is exhausted
    up_arrivals,                \* history: elements the upstream has produced
    src_ended,                  \* FixedDurationSource.handle's generator has finished
    first_pull_at,              \* history: time() when the generator was entered
    src_log,                    \* history: one entry per upstream element pulled
    \* ---- Pipeline.combine: the stages a, b, c combined in the two groupings
    comb_input,                 \* the upstream events both groupings are fed
    comb_cursor,                \* how many of them have been pulled
    comb_started,               \* the sink's first pull has entered the generators
    comb_left,                  \* a.combine(b).combine(c): stage fields, output, ended
    comb_right                  \* a.combine(b.combine(c)): stage fields, output, ended

ddVars   == <<cache_expiry_time, expiry_queue, id_cache, duplicate_events_ignored, dd_log,
              dd_error>>
avgVars  == <<averaging_period_ms, expiry_time_ms, bins, expired_bin, average,
              gas_averages_csv, avg_error, add_obs, avg_handled, expire_obs, retired_log>>
parVars  == <<par_events, par_cursor, par_sink, par_received>>
mainVars == <<input, run_time_seconds, pass, started, cursor, end_time,
              events_processed, invalid_events_filtered, delivered, cut_off,
              upstream_pulled>>
locVars  == <<loc_events, loc_cursor, loc_index, event_locations, location_averages_csv,
              loc_state>>
srcVars  == <<up_ready, up_ended, up_arrivals, src_ended, first_pull_at, src_log>>
combVars == <<comb_input, comb_cursor, comb_started, comb_left, comb_right>>
vars     == <<clock, ddVars, avgVars, parVars, mainVars, locVars, srcVars, combVars>>

(***************************************************************************)
(* Bounds of the model.                                                    *)
(***************************************************************************)
MaxClock     == 6      \* last clock reading explored, in ticks
TicksPerSecond == 2    \* time.time() readings are multiples of 1 / TicksPerSecond second
MaxDDEvents  == 4      \* events fed to DeDuplicator.handle in SpecDedup
MaxAvgEvents == 3      \* events fed to CalculatesAverage.handle in SpecAverage
MaxStream    == 3      \* longest event sequence in SpecParallel
MaxMainInput == 2      \* longest event sequence the receiver yields in SpecMain
NumSinks     == 2      \* member sinks of the ParallelSink
MaxTtl       == 2      \* largest cache_expiry_time tried
MaxArrivals  == 3      \* elements a live upstream produces
MaxCombInput == 2      \* longest upstream sequence fed to a combined pipeline

(***************************************************************************)
(* Events and locations.                                                   *)
(***************************************************************************)
EventIds    == {"A", "B"}
Locations   == { [id |-> "L1", x |-> 0, y |-> 0], [id |-> "L2", x |-> 10, y |-> 0] }
LocationIds == {"L1", "LX"}          \* "LX" is not a known location

Event(l, i, ts, v) == [location_id |-> l, event_id |-> i, timestamp |-> ts, value |-> v]

\* Events of the pipeline specifications: timestamp and value play no part there.
PipelineEvents == { Event(l, i, 0, 1) : l \in LocationIds, i \in EventIds }

SeqsUpTo(S, n) == UNION { [1..k -> S] : k \in 0..n }

\* A duration given in seconds (run_time_seconds, cache_expiry_time), in ticks.
Seconds(s) == s * TicksPerSecond

Tick ==
    /\ clock < MaxClock
    /\ clock' = clock + 1
    /\ UNCHANGED <<ddVars, avgVars, parVars, mainVars, locVars, srcVars, combVars>>

(***************************************************************************)
(* DeDuplicator                                                            *)
(***************************************************************************)
DeduplicationRecord(e, i) == [expiry |-> e, id |-> i]

\* The loop condition's time test: processed_at_time > self.expiry_queue[0].expiry
ExpiredEager(processed_at_time, record) == processed_at_time >= record.expiry
Expired(processed_at_time, record) == processed_at_time > record.expiry

\* A version that expires at most one record per event (if instead of while).
ExpireOneRecord(queue, cache, processed_at_time) ==
    IF Len(queue) > 0 /\ Expired(processed_at_time, Head(queue))
    THEN [expiry_queue |-> Tail(queue), id_cache |-> cache \ {Head(queue).id},
          key_error |-> Head(queue).id \notin cache]
    ELSE [expiry_queue |-> queue, id_cache |-> cache, key_error |-> FALSE]

\* A version that pops the expired records and leaves their ids in the cache.
RECURSIVE ExpireLeavesCache(_, _, _)
ExpireLeavesCache(queue, cache, processed_at_time) ==
    IF Len(queue) > 0 /\ Expired(processed_at_time, Head(queue))
    THEN ExpireLeavesCache(Tail(queue), cache, processed_at_time)
    ELSE [expiry_queue |-> queue, id_cache |-> cache, key_error |-> FALSE]

\* "Expire old records": the while loop, as the queue and cache it leaves.
\* self.id_cache.remove(...) raises KeyError for an id that is not in the set,
\* after popleft() has taken the record: key_error.
RECURSIVE ExpireOldRecords(_, _, _)
ExpireOldRecords(queue, cache, processed_at_time) ==
    IF Len(queue) > 0 /\ Expired(processed_at_time, Head(queue))
    THEN IF Head(queue).id \in cache
         THEN ExpireOldRecords(Tail(queue), cache \ {Head(queue).id}, processed_at_time)
         ELSE [expiry_queue |-> Tail(queue), id_cache |-> cache, key_error |-> TRUE]
    ELSE [expiry_queue |-> queue, id_cache |-> cache, key_error |-> FALSE]

\* The admission branch without self.id_cache.add(event.event_id).
AdmitForgetsCache(queue, cache, ttl, event, processed_at_time) ==
    [expiry_queue |-> Append(queue, DeduplicationRecord(processed_at_time + Seconds(ttl), event.event_id)),
     id_cache     |-> cache]
\* "Add non-duplicated entries to cache": the else branch.
Admit(queue, cache, ttl, event, processed_at_time) ==
    [expiry_queue |-> Append(queue, DeduplicationRecord(processed_at_time + Seconds(ttl), event.event_id)),
     id_cache     |-> cache \cup {event.event_id}]

\* A version whose duplicate branch lacks self.duplicate_events_ignored += 1.
DeDuplicatorHandleUncounted(queue, cache, ignored, ttl, event, processed_at_time) ==
    LET live == ExpireOldRecords(queue, cache, processed_at_time)
        kept == Admit(live.expiry_queue, live.id_cache, ttl, event, processed_at_time)
        dup  == event.event_id \in live.id_cache
    IN  [expiry_queue |-> IF live.key_error \/ dup THEN live.expiry_queue ELSE kept.expiry_queue,
         id_cache     |-> IF live.key_error \/ dup THEN live.id_cache ELSE kept.id_cache,
         duplicate_events_ignored |-> ignored,
         yielded      |-> ~live.key_error /\ ~dup,
         key_error    |-> live.key_error]

\* One iteration of DeDuplicator.handle's loop, for `event` read at time(): the
\* state it leaves, whether the event is yielded, and whether KeyError ended it.
DeDuplicatorHandle(queue, cache, ignored, ttl, event, processed_at_time) ==
    LET live == ExpireOldRecords(queue, cache, processed_at_time) IN
    IF live.key_error
    THEN [expiry_queue |-> live.expiry_queue,
          id_cache     |-> live.id_cache,
          duplicate_events_ignored |-> ignored,
          yielded      |-> FALSE,
          key_error    |-> TRUE]
    ELSE IF event.event_id \in live.id_cache
    THEN [expiry_queue |-> live.expiry_queue,
          id_cache     |-> live.id_cache,
          duplicate_events_ignored |-> ignored + 1,
          yielded      |-> FALSE,
          key_error    |-> FALSE]
    ELSE LET kept == Admit(live.expiry_queue, live.id_cache, ttl, event, processed_at_time) IN
         [expiry_queue |-> kept.expiry_queue,
          id_cache     |-> kept.id_cache,
          duplicate_events_ignored |-> ignored,
          yielded      |-> TRUE,
          key_error    |-> FALSE]

\* The effect of one loop iteration on the DeDuplicator's fields.
DDApply(event, result, processed_at_time) ==
    /\ expiry_queue' = result.expiry_queue
    /\ id_cache' = result.id_cache
    /\ duplicate_events_ignored' = result.duplicate_events_ignored
    /\ dd_error' = IF result.key_error THEN "KeyError" ELSE dd_error
    /\ dd_log' = IF result.key_error
                 THEN dd_log
                 ELSE Append(dd_log, [event_id |-> event.event_id, at |-> processed_at_time,
                                      yielded |-> result.yielded])
    /\ UNCHANGED cache_expiry_time

\* DeDuplicator.__init__
DDInit(ttl) ==
    /\ cache_expiry_time = ttl
    /\ expiry_queue = <<>>
    /\ id_cache = {}
    /\ duplicate_events_ignored = 0
    /\ dd_log = <<>>
    /\ dd_error = "none"

\* DeDuplicator.handle pulls one event from upstream and processes it.
DDHandleEvent ==
    /\ dd_error = "none"
    /\ Len(dd_log) < MaxDDEvents
    /\ \E i \in EventIds :
          DDApply(Event("L1", i, 0, 1),
                  DeDuplicatorHandle(expiry_queue, id_cache, duplicate_events_ignored,
                                     cache_expiry_time, Event("L1", i, 0, 1), clock),
                  clock)
    /\ UNCHANGED <<clock, avgVars, parVars, mainVars, locVars, srcVars, combVars>>

(***************************************************************************)
(* CalculatesAverage                                                       *)
(***************************************************************************)
MsPerSecond == 1000

\* 1000 * time.time() for the reading `now`.
Milliseconds(now) == (MsPerSecond * now) \div TicksPerSecond

AveragingPeriods == {1}         \* averaging_period values tried (seconds)
ExpiryTimes      == {1, 2}      \* expiry_time values tried (seconds)
StartClock       == 2           \* time.time() when the sink is constructed, in ticks
Timestamps       == { 500 * k : k \in 0..6 }   \* event timestamps tried (ms)
Values           == {4, 6}                     \* event values tried

AverageBin(start, end, values) == [start |-> start, end |-> end, values |-> values]
Average(start, end, value) == [start |-> start, end |-> end, value |-> value]

RECURSIVE SumSeq(_)
SumSeq(s) == IF s = <<>> THEN 0 ELSE Head(s) + SumSeq(Tail(s))

\* datetime.fromtimestamp(ms / 1000): whole seconds and microseconds (the local
\* zone's offset is taken as 0).
FromTimestamp(ms) == [second |-> ms \div MsPerSecond,
                      microsecond |-> (ms % MsPerSecond) * 1000]

\* sum(values) / len(values) without the emptiness guard's 0.
MeanCountsOneMore(values) == [num |-> SumSeq(values), den |-> Len(values) + 1]
\* (sum(self.values) / len(self.values)) if self.values else 0, as a fraction
MeanOrZero(values) ==
    IF Len(values) # 0 THEN [num |-> SumSeq(values), den |-> Len(values)]
                       ELSE [num |-> 0, den |-> 1]

\* AverageBin.average
BinAverage(bin) ==
    Average(FromTimestamp(bin.start), FromTimestamp(bin.end), MeanOrZero(bin.values))

\* A new bin that starts where the last one started.
NewBinFromStart(last, period_ms) == AverageBin(last.start, last.end + period_ms, <<>>)
\* AverageBin(start=current_last_end, end=(current_last_end + period), values=[])
NewBin(last, period_ms) == AverageBin(last.end, last.end + period_ms, <<>>)

\* "Checks if new bins are needed": the while loop of add_to_bin.
RECURSIVE AppendBins(_, _, _)
AppendBins(bs, timestamp, period_ms) ==
    IF bs[Len(bs)].end < timestamp
    THEN AppendBins(Append(bs, NewBin(bs[Len(bs)], period_ms)), timestamp, period_ms)
    ELSE bs

\* int(event.timestamp - self.bins[0].start) // self.averaging_period_ms; the
\* deque index is 0-based.
BinIndex(timestamp, first_start, period_ms) == (timestamp - first_start) \div period_ms

\* write_bins_to_file: one row per bin that holds values.
WriteBinsToFile(bs) ==
    LET filled == SelectSeq(bs, LAMBDA b : Len(b.values) # 0) IN
    [i \in 1..Len(filled) |-> BinAverage(filled[i])]

\* An early return that first appends a bin behind the last one.
OldEventAppendsBin(bs, period_ms) ==
    [bins |-> Append(bs, NewBin(bs[Len(bs)], period_ms)), outcome |-> "old", bin_index |-> 0]
\* "Not averaging old event": the early return of add_to_bin.
OldEventResult(bs, period_ms) == [bins |-> bs, outcome |-> "old", bin_index |-> 0]

\* add_to_bin(event) on the deque bs: the deque it leaves and what happened.
\* outcome: "old" (early return), "placed", or "IndexError" (bins[0] on an empty
\* deque, or bins[bin_index] out of range).
AddToBin(bs, event, period_ms) ==
    IF Len(bs) = 0
    THEN [bins |-> bs, outcome |-> "IndexError", bin_index |-> 0]
    ELSE IF bs[1].start > event.timestamp
    THEN OldEventResult(bs, period_ms)
    ELSE LET grown == AppendBins(bs, event.timestamp, period_ms)
             bin_index == BinIndex(event.timestamp, grown[1].start, period_ms)
         IN  IF bin_index >= Len(grown)
             THEN [bins |-> grown, outcome |-> "IndexError", bin_index |-> bin_index]
             ELSE [bins |-> [grown EXCEPT ![bin_index + 1].values = Append(@, event.value)],
                   outcome |-> "placed", bin_index |-> bin_index]

\* A test that also retires a bin whose end lags the clock by exactly the expiry.
FirstBinExpiredAtExpiry(bs, current_time_ms, expiry_ms) ==
    current_time_ms - expiry_ms >= bs[1].end
\* The test of maybe_expire_first_bin_and_get_average.
FirstBinExpired(bs, current_time_ms, expiry_ms) == current_time_ms - expiry_ms > bs[1].end

NoExpireObs == [checked |-> FALSE, now_ms |-> 0, first_start |-> 0, first_end |-> 0,
                popped |-> FALSE, len_before |-> 0, len_after |-> 0]

\* CalculatesAverage.__init__, at time.time() = now.
AvgInit(averaging_period, expiry_time, now) ==
    /\ averaging_period_ms = MsPerSecond * averaging_period
    /\ expiry_time_ms = MsPerSecond * expiry_time
    /\ bins = << AverageBin(Milliseconds(now) - MsPerSecond * expiry_time,
                            Milliseconds(now) - MsPerSecond * expiry_time, <<>>) >>
    /\ expired_bin = <<>>
    /\ average = <<>>
    /\ gas_averages_csv = <<>>
    /\ avg_error = "none"
    /\ add_obs = [outcome |-> "none", timestamp |-> 0, value |-> 0, bin |-> <<>>,
                  last_end_before |-> <<>>, bins_before |-> 0, bins_grown |-> 0]
    /\ avg_handled = 0
    /\ expire_obs = NoExpireObs
    /\ retired_log = <<>>

\* One iteration of CalculatesAverage.handle's loop: add_to_bin, then
\* maybe_expire_first_bin_and_get_average, which reads time.time() = now, and
\* the average of the expired bin.
AvgHandle(event, now) ==
    LET r == AddToBin(bins, event, averaging_period_ms)
        obs == [outcome |-> r.outcome, timestamp |-> event.timestamp, value |-> event.value,
                bin |-> IF r.outcome = "placed"
                        THEN << [start |-> r.bins[r.bin_index + 1].start,
                                 end   |-> r.bins[r.bin_index + 1].end] >>
                        ELSE <<>>,
                last_end_before |-> IF Len(bins) = 0 THEN <<>> ELSE << bins[Len(bins)].end >>,
                bins_before |-> Len(bins), bins_grown |-> Len(r.bins)]
    IN
    /\ add_obs' = obs
    /\ avg_handled' = avg_handled + 1
    /\ IF r.outcome = "IndexError"
       THEN /\ avg_error' = "IndexError"
            /\ bins' = r.bins
            /\ expire_obs' = NoExpireObs
            /\ UNCHANGED <<expired_bin, average, gas_averages_csv, retired_log>>
       ELSE /\ avg_error' = avg_error
            /\ gas_averages_csv' = IF r.outcome = "placed" THEN WriteBinsToFile(r.bins)
                                                           ELSE gas_averages_csv
            /\ IF FirstBinExpired(r.bins, Milliseconds(now), expiry_time_ms)
               THEN /\ bins' = Tail(r.bins)
                    /\ expired_bin' = << Head(r.bins) >>
                    /\ average' = << BinAverage(Head(r.bins)) >>
                    /\ retired_log' = Append(retired_log,
                                             [start |-> Head(r.bins).start, end |-> Head(r.bins).end,
                                              at_ms |-> Milliseconds(now)])
               ELSE /\ bins' = r.bins
                    /\ expired_bin' = <<>>
                    /\ UNCHANGED <<average, retired_log>>
            /\ expire_obs' = [checked |-> TRUE, now_ms |-> Milliseconds(now),
                              first_start |-> r.bins[1].start, first_end |-> r.bins[1].end,
                              popped |-> Len(bins') < Len(r.bins),
                              len_before |-> Len(r.bins), len_after |-> Len(bins')]
    /\ UNCHANGED <<averaging_period_ms, expiry_time_ms>>

\* CalculatesAverage.handle pulls one event and processes it.
AvgHandleEvent ==
    /\ avg_error = "none"
    /\ avg_handled < MaxAvgEvents
    /\ \E ts \in Timestamps, v \in Values : AvgHandle(Event("L1", "A", ts, v), clock)
    /\ UNCHANGED <<clock, ddVars, parVars, mainVars, locVars, srcVars, combVars>>

(***************************************************************************)
(* ParallelSink                                                            *)
(***************************************************************************)
\* ParallelSink.handle(events) is entered with a generator over `events`;
\* self.sinks are NumSinks sinks that loop `for event in events`.
ParInit(events) ==
    /\ par_events = events
    /\ par_cursor = 0
    /\ par_sink = 1
    /\ par_received = [s \in 1..NumSinks |-> <<>>]

\* `for sink in self.sinks` has run through every sink.
ParDone == par_sink > NumSinks

\* The running sink's loop pulls the generator's next element.
ParSinkPull ==
    /\ ~ParDone
    /\ par_cursor < Len(par_events)
    /\ par_received' = [par_received EXCEPT ![par_sink] = Append(@, par_events[par_cursor + 1])]
    /\ par_cursor' = par_cursor + 1
    /\ UNCHANGED <<par_events, par_sink, clock, ddVars, avgVars, mainVars, locVars, srcVars, combVars>>

\* The generator is exhausted: the running sink's handle returns and the loop of
\* ParallelSink.handle moves to the next sink, with the same generator.
ParSinkReturn ==
    /\ ~ParDone
    /\ par_cursor = Len(par_events)
    /\ par_sink' = par_sink + 1
    /\ UNCHANGED <<par_events, par_cursor, par_received, clock, ddVars, avgVars, mainVars,
                   locVars, srcVars, combVars>>

(***************************************************************************)
(* main: FixedDurationSource -> LocationFilter -> DeDuplicator, run once   *)
(* for each sink: its objects                                              *)
(***************************************************************************)
RunTimes == {1, 2}              \* run_time_seconds values tried
MainTtls == {0, 1}              \* cache_time_to_live_seconds values tried in SpecMain
MainExpiryTimes == {1}          \* the averager's expiry_time_seconds in SpecMain
\* Events the receiver yields in SpecMain: two ids at a known location and one
\* event at an unknown location.
MainEvents == { Event("L1", i, 0, 1) : i \in EventIds } \cup { Event("LX", "A", 0, 1) }
LastPass == 2                   \* main attaches two sinks, one after the other

\* LocationFilter.__init__: set(map(lambda loc: loc.id, valid_locations))
valid_location_ids == { loc.id : loc \in Locations }

BeforeDeadlineInclusive(now, deadline) == now <= deadline

\* FixedDurationSource.handle's test: time() < end_time
BeforeDeadline(now, deadline) == now < deadline

\* LocationFilter.handle's test
KnownLocation(event) == event.location_id \in valid_location_ids

\* A stage that hands its consumer the new event ahead of the earlier ones.
YieldedInFront(received, event) == <<event>> \o received
\* `yield event`, seen from the consumer: the event follows those yielded before.
Yielded(received, event) == Append(received, event)

\* main, up to the first pipeline.sink(...).handle(...) call.
MainInit(events, run_time) ==
    /\ input = events
    /\ run_time_seconds = run_time
    /\ pass = 1
    /\ started = FALSE
    /\ cursor = 0
    /\ end_time = 0
    /\ events_processed = 0
    /\ invalid_events_filtered = 0
    /\ delivered = [p \in 1..LastPass |-> <<>>]
    /\ cut_off = {}
    /\ upstream_pulled = 0

\* Both pipeline.sink(...).handle(...) calls are over.
MainDone == pass > LastPass

(***************************************************************************)
(* LocationAverage                                                         *)
(***************************************************************************)
\* self.locations, in list order.
LocationList == << [id |-> "L1", x |-> 0, y |-> 0], [id |-> "L2", x |-> 10, y |-> 0] >>

\* Events handed to LocationAverage.handle: location and value matter.
WeightedEvents == { Event(l, "A", 0, v) : l \in {"L1", "L2", "LX"}, v \in {0, 1, 3} }

EventLocation(x, y, value) == [x |-> x, y |-> y, value |-> value]

\* The sums of calculate_location_averages over event_details.
RECURSIVE TotalVal(_)
TotalVal(details) ==
    IF details = <<>> THEN 0 ELSE Head(details).value + TotalVal(Tail(details))
RECURSIVE WeightedX(_)
WeightedX(details) ==
    IF details = <<>> THEN 0 ELSE Head(details).x * Head(details).value + WeightedX(Tail(details))
RECURSIVE WeightedY(_)
WeightedY(details) ==
    IF details = <<>> THEN 0 ELSE Head(details).y * Head(details).value + WeightedY(Tail(details))

\* A version that answers 0 instead of dividing by a zero total.
CalculateCoercesZero(details) ==
    IF TotalVal(details) = 0
    THEN [error |-> FALSE, rows |-> << [x |-> [num |-> 0, den |-> 1], y |-> [num |-> 0, den |-> 1]] >>]
    ELSE [error |-> FALSE,
          rows  |-> << [x |-> [num |-> WeightedX(details), den |-> TotalVal(details)],
                        y |-> [num |-> WeightedY(details), den |-> TotalVal(details)]] >>]
\* calculate_location_averages after find_event_locations: weighted_x / total_val
\* raises ZeroDivisionError for a zero total, before anything is written;
\* otherwise write_location_averages_to_file writes the one row (as fractions).
CalculateLocationAverages(details) ==
    IF TotalVal(details) = 0
    THEN [error |-> TRUE, rows |-> <<>>]
    ELSE [error |-> FALSE,
          rows  |-> << [x |-> [num |-> WeightedX(details), den |-> TotalVal(details)],
                        y |-> [num |-> WeightedY(details), den |-> TotalVal(details)]] >>]

\* find_event_locations' inner loop body: the event is kept when it is at the
\* outer loop's location.
FindEventLocation(found, location, event) ==
    IF location.id = event.location_id
    THEN Append(found, EventLocation(location.x, location.y, event.value))
    ELSE found

\* LocationAverage.handle(events) is entered with a generator over `events`.
LocInit(events) ==
    /\ loc_events = events
    /\ loc_cursor = 0
    /\ loc_index = 1
    /\ event_locations = <<>>
    /\ location_averages_csv = <<>>
    /\ loc_state = "find"

\* find_event_locations: the inner loop pulls the generator's next event and
\* keeps it when it is at the outer loop's location.
LocPull ==
    /\ loc_state = "find"
    /\ loc_index <= Len(LocationList)
    /\ loc_cursor < Len(loc_events)
    /\ event_locations' = FindEventLocation(event_locations, LocationList[loc_index],
                                            loc_events[loc_cursor + 1])
    /\ loc_cursor' = loc_cursor + 1
    /\ UNCHANGED <<loc_events, loc_index, location_averages_csv, loc_state,
                   clock, ddVars, avgVars, parVars, mainVars, srcVars, combVars>>

\* find_event_locations: the generator is exhausted, the inner loop ends and the
\* outer loop takes the next location, with the same generator.
LocNextLocation ==
    /\ loc_state = "find"
    /\ loc_index <= Len(LocationList)
    /\ loc_cursor = Len(loc_events)
    /\ loc_index' = loc_index + 1
    /\ UNCHANGED <<loc_events, loc_cursor, event_locations, location_averages_csv, loc_state,
                   clock, ddVars, avgVars, parVars, mainVars, srcVars, combVars>>

\* calculate_location_averages, once find_event_locations has returned.
LocCalculate ==
    /\ loc_state = "find"
    /\ loc_index > Len(LocationList)
    /\ LET result == CalculateLocationAverages(event_locations)
       IN  /\ loc_state' = IF result.error THEN "ZeroDivisionError" ELSE "written"
           /\ location_averages_csv' = result.rows
    /\ UNCHANGED <<loc_events, loc_cursor, loc_index, event_locations,
                   clock, ddVars, avgVars, parVars, mainVars, srcVars, combVars>>

(***************************************************************************)
(* main: the two passes, each with its sink                                *)
(***************************************************************************)
\* pipeline.sink(calculates_average) first, pipeline.sink(location_average) next.
SinkOfPass(p) == IF p = 1 THEN "CalculatesAverage" ELSE "LocationAverage"

\* An exception has left main: KeyError from DeDuplicator, IndexError from
\* CalculatesAverage, ZeroDivisionError from LocationAverage.
MainFailed ==
    \/ dd_error # "none"
    \/ avg_error # "none"
    \/ loc_state = "ZeroDivisionError"

\* The sink's first pull enters FixedDurationSource.handle, which fixes end_time.
StartPass ==
    /\ ~MainDone /\ ~MainFailed
    /\ ~started
    /\ started' = TRUE
    /\ cursor' = 0
    /\ end_time' = clock + Seconds(run_time_seconds)
    /\ UNCHANGED <<input, run_time_seconds, pass, events_processed, invalid_events_filtered,
                   delivered, cut_off, upstream_pulled, clock, ddVars, avgVars, parVars,
                   locVars, srcVars, combVars>>

\* The running sink's loop body for an event the pipeline yields, the last
\* time() reading having been `since`. CalculatesAverage reads time.time() once
\* more, after add_to_bin has returned; LocationAverage is in the inner loop of
\* find_event_locations, at the first location, and reads no clock.
SinkHandle(event, since) ==
    IF SinkOfPass(pass) = "CalculatesAverage"
    THEN /\ \E current_time \in since..MaxClock :
               /\ AddToBin(bins, event, averaging_period_ms).outcome = "IndexError"
                     => current_time = since
               /\ AvgHandle(event, current_time)
               /\ clock' = current_time
         /\ UNCHANGED locVars
    ELSE /\ event_locations' = FindEventLocation(event_locations, LocationList[loc_index], event)
         /\ clock' = since
         /\ UNCHANGED <<loc_events, loc_cursor, loc_index, location_averages_csv, loc_state,
                        avgVars>>

\* The pipeline's generator has finished: CalculatesAverage.handle returns;
\* LocationAverage's outer loop finds the generator exhausted for every further
\* location and calculate_location_averages goes on with what was found.
SinkReturns ==
    IF SinkOfPass(pass) = "LocationAverage"
    THEN LET result == CalculateLocationAverages(event_locations)
         IN  /\ loc_index' = Len(LocationList) + 1
             /\ loc_state' = IF result.error THEN "ZeroDivisionError" ELSE "written"
             /\ location_averages_csv' = result.rows
             /\ UNCHANGED <<loc_events, loc_cursor, event_locations>>
    ELSE UNCHANGED locVars

\* The sink pulls: FixedDurationSource pulls the next upstream event and reads
\* time() before the deadline, LocationFilter tests the event, DeDuplicator
\* reads time() again for it, and the sink handles the event if it is yielded.
PipelinePull ==
    /\ ~MainDone /\ ~MainFailed
    /\ started
    /\ cursor < Len(input)
    /\ BeforeDeadline(clock, end_time)
    /\ LET event == input[cursor + 1]
       IN  /\ cursor' = cursor + 1
           /\ upstream_pulled' = upstream_pulled + 1
           /\ events_processed' = events_processed + 1
           /\ IF KnownLocation(event)
              THEN \E processed_at_time \in clock..MaxClock :
                     LET result == DeDuplicatorHandle(expiry_queue, id_cache,
                                                      duplicate_events_ignored,
                                                      cache_expiry_time, event,
                                                      processed_at_time)
                     IN  /\ DDApply(event, result, processed_at_time)
                         /\ UNCHANGED invalid_events_filtered
                         /\ IF result.yielded
                            THEN /\ delivered' = [delivered EXCEPT ![pass] = Yielded(@, event)]
                                 /\ SinkHandle(event, processed_at_time)
                            ELSE /\ clock' = processed_at_time
                                 /\ UNCHANGED <<delivered, avgVars, locVars>>
              ELSE /\ invalid_events_filtered' = invalid_events_filtered + 1
                   /\ UNCHANGED <<clock, ddVars, delivered, avgVars, locVars>>
    /\ UNCHANGED <<input, run_time_seconds, pass, started, end_time, cut_off,
                   parVars, srcVars, combVars>>

\* FixedDurationSource pulls an upstream event at or after the deadline: it
\* returns, the generators above it stop and the sink goes on without events.
DeadlineReached ==
    /\ ~MainDone /\ ~MainFailed
    /\ started
    /\ cursor < Len(input)
    /\ ~BeforeDeadline(clock, end_time)
    /\ cursor' = cursor + 1
    /\ pass' = pass + 1
    /\ started' = FALSE
    /\ cut_off' = cut_off \cup {pass}
    /\ upstream_pulled' = upstream_pulled + 1
    /\ SinkReturns
    /\ UNCHANGED <<input, run_time_seconds, end_time, events_processed, invalid_events_filtered,
                   delivered, clock, ddVars, avgVars, parVars, srcVars, combVars>>

\* The upstream sequence ends: every generator stops and the sink goes on
\* without events.
EndOfStream ==
    /\ ~MainDone /\ ~MainFailed
    /\ started
    /\ cursor = Len(input)
    /\ pass' = pass + 1
    /\ started' = FALSE
    /\ SinkReturns
    /\ UNCHANGED <<input, run_time_seconds, cursor, end_time, events_processed,
                   invalid_events_filtered, delivered, cut_off, upstream_pulled,
                   clock, ddVars, avgVars, parVars, srcVars, combVars>>

(***************************************************************************)
(* FixedDurationSource over a live upstream                                *)
(***************************************************************************)
\* The upstream here is a generator that produces elements at times of its own
\* choosing and may never produce another (the receiver polling a queue).
SrcInit(run_time) ==
    /\ MainInit(<<>>, run_time)
    /\ up_ready = FALSE
    /\ up_ended = FALSE
    /\ up_arrivals = 0
    /\ src_ended = FALSE
    /\ first_pull_at = 0
    /\ src_log = <<>>

\* The consumer's first pull enters the generator: end_time = time() + run_time_seconds.
SrcStart ==
    /\ ~started /\ ~src_ended
    /\ started' = TRUE
    /\ end_time' = clock + Seconds(run_time_seconds)
    /\ first_pull_at' = clock
    /\ UNCHANGED <<input, run_time_seconds, pass, cursor, events_processed,
                   invalid_events_filtered, delivered, cut_off, upstream_pulled,
                   up_ready, up_ended, up_arrivals, src_ended, src_log,
                   clock, ddVars, avgVars, parVars, locVars, combVars>>

\* The upstream has its next element ready.
UpstreamProduces ==
    /\ ~up_ready /\ ~up_ended
    /\ up_arrivals < MaxArrivals
    /\ up_ready' = TRUE
    /\ up_arrivals' = up_arrivals + 1
    /\ UNCHANGED <<up_ended, src_ended, first_pull_at, src_log,
                   clock, ddVars, avgVars, parVars, mainVars, locVars, combVars>>

\* The upstream is exhausted.
UpstreamEnds ==
    /\ ~up_ready /\ ~up_ended
    /\ up_ended' = TRUE
    /\ UNCHANGED <<up_ready, up_arrivals, src_ended, first_pull_at, src_log,
                   clock, ddVars, avgVars, parVars, mainVars, locVars, combVars>>

\* `for event in events` receives an element before the deadline: count and yield it.
SrcYield ==
    /\ started /\ ~src_ended
    /\ up_ready
    /\ BeforeDeadline(clock, end_time)
    /\ up_ready' = FALSE
    /\ events_processed' = events_processed + 1
    /\ src_log' = Append(src_log, [at |-> clock, yielded |-> TRUE])
    /\ UNCHANGED <<input, run_time_seconds, pass, started, cursor, end_time,
                   invalid_events_filtered, delivered, cut_off, upstream_pulled,
                   up_ended, up_arrivals, src_ended, first_pull_at,
                   clock, ddVars, avgVars, parVars, locVars, combVars>>

\* `for event in events` receives an element at or after the deadline: return.
SrcDeadline ==
    /\ started /\ ~src_ended
    /\ up_ready
    /\ ~BeforeDeadline(clock, end_time)
    /\ up_ready' = FALSE
    /\ src_ended' = TRUE
    /\ src_log' = Append(src_log, [at |-> clock, yielded |-> FALSE])
    /\ UNCHANGED <<up_ended, up_arrivals, first_pull_at,
                   clock, ddVars, avgVars, parVars, mainVars, locVars, combVars>>

\* `for event in events` finds the upstream exhausted: the generator finishes.
SrcUpstreamEnded ==
    /\ started /\ ~src_ended
    /\ ~up_ready /\ up_ended
    /\ src_ended' = TRUE
    /\ UNCHANGED <<up_ready, up_ended, up_arrivals, first_pull_at, src_log,
                   clock, ddVars, avgVars, parVars, mainVars, locVars, combVars>>

\* The steps of FixedDurationSource.handle and of its consumer's loop.
SrcStep == SrcStart \/ SrcYield \/ SrcDeadline \/ SrcUpstreamEnded

(***************************************************************************)
(* Pipeline.combine and CombinedPipeline                                   *)
(***************************************************************************)
StageNames == {"a", "b", "c"}
StageKinds == {"FixedDurationSource", "LocationFilter", "DeDuplicator"}
CombTtls   == {1}                \* cache_expiry_time of a DeDuplicator stage
CombRunTimes == {2}              \* run_time_seconds of a FixedDurationSource stage
\* Events fed to the combined pipelines: a known and an unknown location, one id.
CombEvents == { Event(l, "A", 0, 1) : l \in LocationIds }

\* The fields of one stage instance after __init__; a stage uses those of its class.
NewStage(kind, run_time, ttl) ==
    [kind |-> kind,
     run_time_seconds |-> run_time, end_time |-> 0, events_processed |-> 0,
     invalid_events_filtered |-> 0,
     cache_expiry_time |-> ttl, expiry_queue |-> <<>>, id_cache |-> {},
     duplicate_events_ignored |-> 0]

\* A pipeline is a stage or a CombinedPipeline of two pipelines.
Stage(name) == [combined |-> FALSE, name |-> name]
Combine(first, second) == [combined |-> TRUE, first |-> first, second |-> second]

LeftGrouping  == Combine(Combine(Stage("a"), Stage("b")), Stage("c"))
RightGrouping == Combine(Stage("a"), Combine(Stage("b"), Stage("c")))

\* Every stage reads time() for itself. The first pull enters the generators
\* from the last stage back to the first; an event passes the stages from the
\* first to the last.
EntryOrder == <<"c", "b", "a">>
PullOrder  == <<"a", "b", "c">>

\* The time() readings of the stages, taken in the given order from `since` on;
\* a stage that reads no clock there is given the reading before it.
Readings(since, order, readers) ==
    { now \in [StageNames -> since..MaxClock] :
         \A i \in 1..Len(order) :
            LET before == IF i = 1 THEN since ELSE now[order[i - 1]]
            IN  /\ before <= now[order[i]]
                /\ order[i] \notin readers => now[order[i]] = before }

\* The first pull enters a stage's generator; FixedDurationSource fixes end_time there.
StageStart(st, now) ==
    IF st.kind = "FixedDurationSource"
    THEN [st EXCEPT !.end_time = now + Seconds(st.run_time_seconds)]
    ELSE st

\* One iteration of a stage's loop over its upstream: the stage's fields
\* afterwards and whether the event was yielded, dropped, or ended the stream.
StageHandle(st, event, now) ==
    CASE st.kind = "FixedDurationSource" ->
           IF BeforeDeadline(now, st.end_time)
           THEN [stage |-> [st EXCEPT !.events_processed = @ + 1], outcome |-> "yielded"]
           ELSE [stage |-> st, outcome |-> "returned"]
      [] st.kind = "LocationFilter" ->
           IF KnownLocation(event)
           THEN [stage |-> st, outcome |-> "yielded"]
           ELSE [stage |-> [st EXCEPT !.invalid_events_filtered = @ + 1], outcome |-> "dropped"]
      [] st.kind = "DeDuplicator" ->
           LET result == DeDuplicatorHandle(st.expiry_queue, st.id_cache,
                                            st.duplicate_events_ignored,
                                            st.cache_expiry_time, event, now)
           IN  [stage |-> [st EXCEPT !.expiry_queue = result.expiry_queue,
                                     !.id_cache = result.id_cache,
                                     !.duplicate_events_ignored = result.duplicate_events_ignored],
                outcome |-> IF result.key_error THEN "KeyError"
                            ELSE IF result.yielded THEN "yielded" ELSE "dropped"]

RECURSIVE PipelineStart(_, _, _)
RECURSIVE PipelineHandle(_, _, _, _)

\* A combination that runs its first pipeline twice before its second.
CombinedPipelineHandleFirstTwice(first, second, stages, event, now) ==
    LET once  == PipelineHandle(first, stages, event, now)
        twice == IF once.outcome = "yielded"
                 THEN PipelineHandle(first, once.stages, event, now)
                 ELSE once
    IN  IF twice.outcome = "yielded"
        THEN PipelineHandle(second, twice.stages, event, now)
        ELSE twice

\* CombinedPipeline.handle for one event: second.handle consumes what
\* first.handle yields; an event first does not yield never reaches second.
CombinedPipelineHandle(first, second, stages, event, now) ==
    LET upstream == PipelineHandle(first, stages, event, now)
    IN  IF upstream.outcome = "yielded"
        THEN PipelineHandle(second, upstream.stages, event, now)
        ELSE upstream

\* handle of a pipeline, for one event pulled through it; now[n] is the time()
\* stage n reads.
PipelineHandle(p, stages, event, now) ==
    IF p.combined
    THEN CombinedPipelineHandle(p.first, p.second, stages, event, now)
    ELSE LET result == StageHandle(stages[p.name], event, now[p.name])
         IN  [stages |-> [stages EXCEPT ![p.name] = result.stage], outcome |-> result.outcome]

\* The first pull enters the generator of every stage the pipeline reaches.
PipelineStart(p, stages, now) ==
    IF p.combined
    THEN PipelineStart(p.second, PipelineStart(p.first, stages, now), now)
    ELSE [stages EXCEPT ![p.name] = StageStart(@, now[p.name])]

\* One grouping: its stages' fields, what it has yielded, and how it ended.
CombCopy(stages) == [stages |-> stages, output |-> <<>>, ended |-> "no"]

CombInit(events, kinds, run_time, ttl) ==
    /\ comb_input = events
    /\ comb_cursor = 0
    /\ comb_started = FALSE
    /\ comb_left = CombCopy([n \in StageNames |-> NewStage(kinds[n], run_time, ttl)])
    /\ comb_right = CombCopy([n \in StageNames |-> NewStage(kinds[n], run_time, ttl)])

\* The sink's pull of the next event through one grouping.
CombPullThrough(p, copy, event, now) ==
    IF copy.ended # "no"
    THEN copy
    ELSE LET result == PipelineHandle(p, copy.stages, event, now)
         IN  [stages |-> result.stages,
              output |-> IF result.outcome = "yielded"
                         THEN Yielded(copy.output, event)
                         ELSE copy.output,
              ended  |-> IF result.outcome \in {"returned", "KeyError"}
                         THEN result.outcome
                         ELSE "no"]

\* The stages that read time() when their generator is entered
\* (FixedDurationSource), and those that read it for each event.
ReadersAtEntry == { n \in StageNames : comb_left.stages[n].kind = "FixedDurationSource" }
ReadersAtPull  == { n \in StageNames : comb_left.stages[n].kind # "LocationFilter" }

\* The sink's first pull enters the generators of both groupings.
CombStart ==
    /\ ~comb_started
    /\ comb_started' = TRUE
    /\ \E now \in Readings(clock, EntryOrder, ReadersAtEntry) :
          /\ comb_left' = [comb_left EXCEPT !.stages = PipelineStart(LeftGrouping, @, now)]
          /\ comb_right' = [comb_right EXCEPT !.stages = PipelineStart(RightGrouping, @, now)]
          /\ clock' = now[EntryOrder[Len(EntryOrder)]]
    /\ UNCHANGED <<comb_input, comb_cursor,
                   ddVars, avgVars, parVars, mainVars, locVars, srcVars>>

\* The next upstream event is pulled through both groupings, each stage reading
\* the same time() in both.
CombPull ==
    /\ comb_started
    /\ comb_cursor < Len(comb_input)
    /\ comb_left.ended = "no" \/ comb_right.ended = "no"
    /\ \E now \in Readings(clock, PullOrder, ReadersAtPull) :
          LET event == comb_input[comb_cursor + 1]
          IN  /\ comb_cursor' = comb_cursor + 1
              /\ comb_left' = CombPullThrough(LeftGrouping, comb_left, event, now)
              /\ comb_right' = CombPullThrough(RightGrouping, comb_right, event, now)
              /\ clock' = now[PullOrder[Len(PullOrder)]]
    /\ UNCHANGED <<comb_input, comb_started,
                   ddVars, avgVars, parVars, mainVars, locVars, srcVars>>

\* The upstream is exhausted: every generator still running finishes.
CombUpstreamEnded ==
    /\ comb_started
    /\ comb_cursor = Len(comb_input)
    /\ comb_left.ended = "no" \/ comb_right.ended = "no"
    /\ comb_left' = [comb_left EXCEPT !.ended = IF @ = "no" THEN "exhausted" ELSE @]
    /\ comb_right' = [comb_right EXCEPT !.ended = IF @ = "no" THEN "exhausted" ELSE @]
    /\ UNCHANGED <<comb_input, comb_cursor, comb_started,
                   clock, ddVars, avgVars, parVars, mainVars, locVars, srcVars>>

(***************************************************************************)
(* Specifications                                                          *)
(***************************************************************************)
\* The components a specification does not run, in their constructed state.
AvgIdle  == AvgInit(1, 1, 0)
ParIdle  == ParInit(<<>>)
MainIdle == MainInit(<<>>, 1)
LocIdle  == LocInit(<<>>)
CombIdle == CombInit(<<>>, [n \in StageNames |-> "LocationFilter"], 0, 0)
SrcIdle  == /\ up_ready = FALSE /\ up_ended = TRUE /\ up_arrivals = 0
            /\ src_ended = TRUE /\ first_pull_at = 0 /\ src_log = <<>>

InitDedup ==
    /\ clock = 0
    /\ \E ttl \in 0..MaxTtl : DDInit(ttl)
    /\ AvgIdle /\ ParIdle /\ MainIdle /\ LocIdle /\ SrcIdle /\ CombIdle
NextDedup == DDHandleEvent \/ Tick
SpecDedup == InitDedup /\ [][NextDedup]_vars

InitAverage ==
    /\ clock = StartClock
    /\ \E p \in AveragingPeriods, x \in ExpiryTimes : AvgInit(p, x, StartClock)
    /\ DDInit(0) /\ ParIdle /\ MainIdle /\ LocIdle /\ SrcIdle /\ CombIdle
NextAverage == AvgHandleEvent \/ Tick
SpecAverage == InitAverage /\ [][NextAverage]_vars

InitParallel ==
    /\ clock = 0
    /\ \E events \in SeqsUpTo(PipelineEvents, MaxStream) : ParInit(events)
    /\ DDInit(0) /\ AvgIdle /\ MainIdle /\ LocIdle /\ SrcIdle /\ CombIdle
NextParallel == ParSinkPull \/ ParSinkReturn
SpecParallel == InitParallel /\ [][NextParallel]_vars

InitMain ==
    /\ clock = 0
    /\ \E events \in SeqsUpTo(MainEvents, MaxMainInput), rt \in RunTimes :
          MainInit(events, rt)
    /\ \E ttl \in MainTtls : DDInit(ttl)
    /\ \E averaging_period \in AveragingPeriods, expiry_time \in MainExpiryTimes :
          AvgInit(averaging_period, expiry_time, clock)
    /\ LocInit(<<>>)
    /\ ParIdle /\ SrcIdle /\ CombIdle
NextMain == StartPass \/ PipelinePull \/ DeadlineReached \/ EndOfStream \/ Tick
SpecMain == InitMain /\ [][NextMain]_vars

InitLocation ==
    /\ clock = 0
    /\ \E events \in SeqsUpTo(WeightedEvents, MaxStream) : LocInit(events)
    /\ DDInit(0) /\ AvgIdle /\ ParIdle /\ MainIdle /\ SrcIdle /\ CombIdle
NextLocation == LocPull \/ LocNextLocation \/ LocCalculate
SpecLocation == InitLocation /\ [][NextLocation]_vars

\* The program keeps running (its own steps are taken when they can be) and
\* time passes; nothing obliges the upstream to produce or to end.
InitSource ==
    /\ clock = 0
    /\ \E rt \in RunTimes : SrcInit(rt)
    /\ DDInit(0) /\ AvgIdle /\ ParIdle /\ LocIdle /\ CombIdle
NextSource == SrcStart \/ UpstreamProduces \/ UpstreamEnds \/ SrcYield \/ SrcDeadline
                 \/ SrcUpstreamEnded \/ Tick
SpecSource == InitSource /\ [][NextSource]_vars /\ WF_vars(SrcStep) /\ WF_vars(Tick)

InitCombine ==
    /\ clock = 0
    /\ \E events \in SeqsUpTo(CombEvents, MaxCombInput),
          kinds \in [StageNames -> StageKinds],
          rt \in CombRunTimes, ttl \in CombTtls :
          CombInit(events, kinds, rt, ttl)
    /\ DDInit(0) /\ AvgIdle /\ ParIdle /\ MainIdle /\ LocIdle /\ SrcIdle
NextCombine == CombStart \/ CombPull \/ CombUpstreamEnded \/ Tick
SpecCombine == InitCombine /\ [][NextCombine]_vars

Spec == SpecMain

(***************************************************************************)
(* Properties of DeDuplicator (checked under SpecDedup)                    *)
(***************************************************************************)
LogIndex == 1..Len(dd_log)

\* Entry i of the log admitted an event with the id of entry j, earlier than j.
AdmittedBefore(i, j) ==
    /\ i < j
    /\ dd_log[i].yielded
    /\ dd_log[i].event_id = dd_log[j].event_id

\* C1: an event handled at time `now` is dropped, and counted in
\* duplicate_events_ignored, exactly when an event with the same id was admitted
\* earlier at a time t1 with now <= t1 + TTL; otherwise it is yielded.
C1_DropRule ==
    /\ \A j \in LogIndex :
          (~dd_log[j].yielded) <=>
              \E i \in LogIndex : /\ AdmittedBefore(i, j)
                                  /\ dd_log[j].at <= dd_log[i].at + Seconds(cache_expiry_time)
    /\ duplicate_events_ignored = Cardinality({ j \in LogIndex : ~dd_log[j].yielded })

\* An id admitted, repeated within the TTL and dropped, repeated after the TTL
\* and admitted again.
C1_Witness ==
    \E i, j, k \in LogIndex :
        /\ AdmittedBefore(i, j) /\ j < k
        /\ dd_log[k].event_id = dd_log[i].event_id
        /\ ~dd_log[j].yielded
        /\ dd_log[k].yielded
        /\ dd_log[k].at > dd_log[i].at + Seconds(cache_expiry_time)
        /\ duplicate_events_ignored = 1

\* C2 as claimed: with TTL = 0, a repeat of an admitted id is yielded whenever at
\* least one other event was handled between the two.
C2_RepeatAfterAnotherEvent ==
    cache_expiry_time = 0 =>
        \A i, j \in LogIndex :
            (AdmittedBefore(i, j) /\ j - i >= 2) => dd_log[j].yielded

\* C2 as amended: with TTL = 0, a repeat of an admitted id, handled after at
\* least one other event, is yielded whenever its clock reading is later than
\* the reading of every earlier admission of that id.
C2_RepeatAfterClockAdvance ==
    cache_expiry_time = 0 =>
        \A j \in LogIndex :
            ( /\ \E i \in LogIndex : AdmittedBefore(i, j) /\ j - i >= 2
              /\ \A i \in LogIndex : AdmittedBefore(i, j) => dd_log[j].at > dd_log[i].at )
            => dd_log[j].yielded

\* TTL = 0: an id admitted, another event handled, the clock advanced, and the
\* id admitted again.
C2_Witness ==
    /\ cache_expiry_time = 0
    /\ \E i, j \in LogIndex :
          /\ AdmittedBefore(i, j) /\ j - i >= 2
          /\ dd_log[j].at > dd_log[i].at
          /\ dd_log[j].yielded
          /\ duplicate_events_ignored = 0

\* Every event of the log was handled within TTL of every other.
AllWithinTtl ==
    \A i, j \in LogIndex : i < j => dd_log[j].at - dd_log[i].at <= Seconds(cache_expiry_time)

DistinctIds ==
    \A i, j \in LogIndex : i < j => dd_log[i].event_id # dd_log[j].event_id

\* C3: when all events handled by a fresh DeDuplicator arrive within TTL of each
\* other, duplicate_events_ignored is 0 exactly when the ids are pairwise distinct.
C3_CountZeroIffDistinct ==
    (Len(dd_log) >= 1 /\ AllWithinTtl) => ((duplicate_events_ignored = 0) <=> DistinctIds)

\* Three events within TTL of each other, at different clock readings, one id
\* repeated and counted.
C3_Witness ==
    /\ Len(dd_log) >= 3
    /\ AllWithinTtl
    /\ dd_log[Len(dd_log)].at > dd_log[1].at
    /\ ~DistinctIds
    /\ duplicate_events_ignored > 0

(***************************************************************************)
(* Properties of CalculatesAverage (checked under SpecAverage)             *)
(***************************************************************************)
\* C4: an event that is not dropped as too old has its value appended to the
\* bin whose half-open interval [start, end) contains its timestamp.
C4_PlacedInContainingBin ==
    add_obs.outcome = "placed" =>
        /\ add_obs.bin[1].start <= add_obs.timestamp
        /\ add_obs.timestamp < add_obs.bin[1].end

\* C5: an event whose timestamp equals the end of the last bin makes add_to_bin
\* append the bin [end, end + period) and record the value there, without an
\* out-of-range index.
C5_BoundaryGoesToNextBin ==
    (add_obs.outcome # "none" /\ add_obs.last_end_before = << add_obs.timestamp >>) =>
        /\ add_obs.outcome = "placed"
        /\ add_obs.bins_grown = add_obs.bins_before + 1
        /\ add_obs.bin = << [start |-> add_obs.timestamp,
                             end   |-> add_obs.timestamp + averaging_period_ms] >>

\* C6: the bin deque is never empty.
C6_AtLeastOneBin == Len(bins) >= 1

\* The bin the constructor seeds: zero width, at construction time minus expiry.
IsSentinel(bin) ==
    /\ bin.start = bin.end
    /\ bin.end = Milliseconds(StartClock) - expiry_time_ms

\* C7: adjacent bins meet (bins[i].end = bins[i+1].start), and every bin but the
\* constructor's sentinel is exactly one averaging period wide.
C7_BinContiguity ==
    /\ \A i \in 1..(Len(bins) - 1) : bins[i].end = bins[i + 1].start
    /\ \A i \in 1..Len(bins) :
          \/ bins[i].end - bins[i].start = averaging_period_ms
          \/ i = 1 /\ IsSentinel(bins[i])

\* An event that made several bins and retired the first one, leaving three.
C7_Witness ==
    /\ Len(bins) >= 3
    /\ expired_bin # <<>>
    /\ add_obs.bins_grown >= add_obs.bins_before + 2

\* The instant a datetime of the model denotes, in microseconds.
Microseconds(dt) == dt.second * 1000000 + dt.microsecond

\* C8: the Average of a retired bin has the bin's start and end, and its value
\* is sum / count of the bin's values, or 0 for a bin without values; values 4
\* and 6 give 5.
C8_AverageOfRetiredBin ==
    expired_bin # <<>> =>
        /\ Len(average) = 1
        /\ Microseconds(average[1].start) = 1000 * expired_bin[1].start
        /\ Microseconds(average[1].end) = 1000 * expired_bin[1].end
        /\ average[1].value.den > 0
        /\ average[1].value.num * Len(expired_bin[1].values)
              = SumSeq(expired_bin[1].values) * average[1].value.den
        /\ Len(expired_bin[1].values) = 0 => average[1].value.num = 0
        /\ expired_bin[1].values \in {<<4, 6>>, <<6, 4>>}
              => average[1].value.num = 5 * average[1].value.den

\* A bin retired with the values 4 and 6, averaged to 5.
C8_Witness ==
    /\ expired_bin # <<>>
    /\ expired_bin[1].values = <<4, 6>>
    /\ Len(average) = 1
    /\ average[1].value.num = 5 * average[1].value.den

\* C17: after each processed event one retirement check is made; the first bin
\* is popped exactly when now_ms - expiry_ms > bins[0].end and no other bin is
\* (at most one per event); no bin is retired before the clock has passed its
\* end by more than the expiry; bins are retired oldest first: starts never
\* decrease and ends increase (the sentinel [s, s) and the first real bin
\* [s, s + period) start at the same instant).
C17_RetirementStep ==
    /\ add_obs.outcome \in {"old", "placed"} => expire_obs.checked
    /\ expire_obs.checked =>
          /\ expire_obs.popped <=> (expire_obs.now_ms - expiry_time_ms > expire_obs.first_end)
          /\ expire_obs.popped =>
                /\ expire_obs.len_after = expire_obs.len_before - 1
                /\ Len(expired_bin) = 1
                /\ expired_bin[1].start = expire_obs.first_start
                /\ expired_bin[1].end = expire_obs.first_end
                /\ Len(bins) >= 1 => bins[1].start = expire_obs.first_end
          /\ ~expire_obs.popped =>
                /\ expire_obs.len_after = expire_obs.len_before
                /\ expired_bin = <<>>
                /\ bins[1].start = expire_obs.first_start
                /\ bins[1].end = expire_obs.first_end
    /\ Len(retired_log) <= avg_handled
    /\ \A k \in 1..Len(retired_log) :
          retired_log[k].at_ms - expiry_time_ms > retired_log[k].end
    /\ \A k, m \in 1..Len(retired_log) :
          k < m => /\ retired_log[k].start <= retired_log[m].start
                   /\ retired_log[k].end < retired_log[m].end

\* The sentinel and the bin behind it both retired, one per event.
C17_Witness ==
    /\ Len(retired_log) = 2
    /\ retired_log[1].start = retired_log[1].end
    /\ retired_log[2].end = retired_log[2].start + averaging_period_ms
    /\ expire_obs.checked /\ expire_obs.popped

\* C18: an event older than bins[0].start leaves the deque as it was: no bin is
\* appended and no value is added (the retirement that follows may pop the
\* first bin).
C18_OldEventChangesNoBin ==
    [][ (avg_handled' = avg_handled + 1 /\ add_obs'.outcome = "old") =>
            IF expired_bin' = <<>> THEN bins' = bins
                                   ELSE expired_bin' \o bins' = bins ]_vars

\* An old event was dropped while bins with values were held.
C18_Witness ==
    /\ add_obs.outcome = "old"
    /\ add_obs.bins_grown = add_obs.bins_before
    /\ Len(bins) >= 2
    /\ \E i \in 1..Len(bins) : Len(bins[i].values) > 0

(***************************************************************************)
(* Properties of the fan-out                                               *)
(***************************************************************************)
\* C9 (SpecParallel): every member sink of a ParallelSink is given every event
\* of the sequence, in order.
C9_EverySinkReceivesAll ==
    ParDone => \A s \in 1..NumSinks : par_received[s] = par_events

\* C10 (SpecMain): the two passes main runs over the same pipeline hand their
\* sinks the same sequence of events (neither pass being cut by the deadline).
C10_BothPassesDeliverTheSame ==
    (MainDone /\ cut_off = {}) => delivered[1] = delivered[2]

(***************************************************************************)
(* Properties of the pipeline stages                                       *)
(***************************************************************************)
\* s can be obtained from t by deleting elements (order and multiplicity kept).
RECURSIVE IsSubsequence(_, _)
IsSubsequence(s, t) ==
    IF s = <<>> THEN TRUE
    ELSE IF t = <<>> THEN FALSE
    ELSE IF Head(s) = Head(t) THEN IsSubsequence(Tail(s), Tail(t))
    ELSE IsSubsequence(s, Tail(t))

\* The part of the input a pass has pulled so far.
Pulled(p) == IF p < pass THEN input
             ELSE IF p = pass THEN SubSeq(input, 1, cursor)
             ELSE <<>>

\* C14 (SpecMain): what FixedDurationSource -> LocationFilter -> DeDuplicator
\* hands the sink is a subsequence of what the receiver yielded: the surviving
\* events, unaltered, unrepeated and in the receiver's order.
C14_OutputIsSubsequence ==
    \A p \in 1..LastPass : IsSubsequence(delivered[p], Pulled(p))

\* Both passes over: the first dropped an event and delivered the one after
\* it, the second delivered less.
C14_Witness ==
    /\ MainDone
    /\ Len(input) = 2
    /\ delivered[1] = << input[2] >>
    /\ delivered[2] = <<>>

\* The records of the expiry queue, front to back.
QueueIndex == 1..Len(expiry_queue)

\* C19 (SpecDedup): after every event id_cache is exactly the set of ids in
\* expiry_queue, no id is queued twice, expiries are non-decreasing from front
\* to back, and no eviction met an id missing from id_cache (KeyError).
C19_CacheMatchesQueue ==
    /\ id_cache = { expiry_queue[k].id : k \in QueueIndex }
    /\ \A k, m \in QueueIndex : k # m => expiry_queue[k].id # expiry_queue[m].id
    /\ \A k, m \in QueueIndex : k < m => expiry_queue[k].expiry <= expiry_queue[m].expiry
    /\ dd_error = "none"

\* Records were evicted and two records with different expiries are queued.
C19_Witness ==
    /\ Len(expiry_queue) = 2
    /\ expiry_queue[1].expiry < expiry_queue[2].expiry
    /\ Len(dd_log) = 4
    /\ Cardinality({ j \in LogIndex : dd_log[j].yielded }) >= 3

RECURSIVE TotalLen(_, _)
TotalLen(f, n) == IF n = 0 THEN 0 ELSE Len(f[n]) + TotalLen(f, n - 1)

\* C20 (SpecMain): every event FixedDurationSource pulls before the deadline is
\* counted in events_processed and yielded; every event entering LocationFilter
\* is yielded or counted in invalid_events_filtered; every event entering
\* DeDuplicator is yielded or counted in duplicate_events_ignored.
C20_CounterConservation ==
    /\ events_processed = upstream_pulled - Cardinality(cut_off)
    /\ events_processed = Len(dd_log) + invalid_events_filtered
    /\ Len(dd_log) = TotalLen(delivered, LastPass) + duplicate_events_ignored
    /\ duplicate_events_ignored = Cardinality({ j \in LogIndex : ~dd_log[j].yielded })

\* Both passes over, with an unknown location, a duplicate and a delivery.
C20_Witness ==
    /\ MainDone
    /\ invalid_events_filtered > 0
    /\ duplicate_events_ignored > 0
    /\ TotalLen(delivered, LastPass) > 0
    /\ events_processed = 2 * Len(input)

(***************************************************************************)
(* Properties of LocationAverage (checked under SpecLocation)              *)
(***************************************************************************)
\* The location record with the given id.
LocationOf(id) == CHOOSE loc \in Locations : loc.id = id

\* Every event of the stream at a known location, as x, y and value.
RECURSIVE AllEventLocations(_)
AllEventLocations(events) ==
    IF events = <<>> THEN <<>>
    ELSE IF Head(events).location_id \in valid_location_ids
    THEN << EventLocation(LocationOf(Head(events).location_id).x,
                          LocationOf(Head(events).location_id).y,
                          Head(events).value) >> \o AllEventLocations(Tail(events))
    ELSE AllEventLocations(Tail(events))

KnownLocationsSeen ==
    { loc_events[k].location_id : k \in 1..Len(loc_events) } \cap valid_location_ids

\* C11: for a stream with events at more than one known location (and a
\* non-zero total), the centroid written is x = sum(x * value) / sum(value),
\* y = sum(y * value) / sum(value) over all events at known locations.
C11_CentroidOverAllEvents ==
    LET all == AllEventLocations(loc_events) IN
    (loc_state # "find" /\ Cardinality(KnownLocationsSeen) > 1 /\ TotalVal(all) # 0) =>
        /\ loc_state = "written"
        /\ Len(location_averages_csv) = 1
        /\ location_averages_csv[1].x.num * TotalVal(all)
              = WeightedX(all) * location_averages_csv[1].x.den
        /\ location_averages_csv[1].y.num * TotalVal(all)
              = WeightedY(all) * location_averages_csv[1].y.den

\* C12: when the total value accumulated over the pass is zero (an empty stream
\* included), handle ends in the division's error and no row is written.
C12_ZeroTotalFails ==
    (loc_state # "find" /\ TotalVal(event_locations) = 0) =>
        /\ loc_state = "ZeroDivisionError"
        /\ location_averages_csv = <<>>

\* A stream whose events were all accumulated with value 0 ended in the error.
C12_Witness ==
    /\ loc_state = "ZeroDivisionError"
    /\ Len(event_locations) >= 2
    /\ location_averages_csv = <<>>

(***************************************************************************)
(* Properties of FixedDurationSource (checked under SpecSource)            *)
(***************************************************************************)
SrcIndex == 1..Len(src_log)

\* C15: the deadline of a pass is the time of the first pull plus
\* run_time_seconds; every event is yielded at a clock reading before it; an
\* element seen at or after it is not yielded and is the last one pulled.
C15_DeadlineCutsTheStream ==
    /\ started => end_time = first_pull_at + Seconds(run_time_seconds)
    /\ \A k \in SrcIndex :
          src_log[k].yielded <=> src_log[k].at < first_pull_at + Seconds(run_time_seconds)
    /\ \A k \in SrcIndex : ~src_log[k].yielded => (k = Len(src_log) /\ src_ended)
    /\ events_processed = Cardinality({ k \in SrcIndex : src_log[k].yielded })

\* Two events yielded at different times, then one seen after the deadline.
C15_Witness ==
    /\ src_ended
    /\ Len(src_log) = 3
    /\ src_log[1].yielded /\ src_log[2].yielded /\ ~src_log[3].yielded
    /\ src_log[1].at < src_log[2].at
    /\ ~up_ended

\* C16: once the deadline has passed (or the upstream has ended) the stream
\* FixedDurationSource produces ends, even if the upstream never produces
\* another element.
C16_StreamEnds ==
    (started /\ (~BeforeDeadline(clock, end_time) \/ up_ended)) ~> src_ended

(***************************************************************************)
(* Properties of Pipeline.combine (checked under SpecCombine)              *)
(***************************************************************************)
\* C13: a.combine(b).combine(c) and a.combine(b.combine(c)), fed the same
\* events at the same clock readings, yield the same output, end the same way,
\* and leave every stage's counters, queue and cache in the same state.
C13_CombineIsAssociative ==
    /\ comb_left.output = comb_right.output
    /\ comb_left.ended = comb_right.ended
    /\ \A n \in StageNames : comb_left.stages[n] = comb_right.stages[n]

\* Three stages of three classes have acted on two events: both passed the
\* source, one was yielded, the other was dropped as a duplicate, and the
\* upstream was consumed.
C13_Witness ==
    /\ comb_left.ended = "exhausted"
    /\ { comb_left.stages[n].kind : n \in StageNames } = StageKinds
    /\ comb_left.output # <<>>
    /\ \E n \in StageNames : comb_left.stages[n].events_processed > 1
    /\ \E n \in StageNames : comb_left.stages[n].duplicate_events_ignored > 0

====
